---- MODULE Spec2Model ----
(***************************************************************************)
(* Model of kp-http (src/main.rs): a thread-per-connection HTTP server.    *)
(* Bytes are one-element strings: an ASCII byte is its character, a byte   *)
(* >= 0x80 is written "xHH".  Text (a Rust str) is a sequence of chars: an *)
(* ASCII char is its character, "U+00E9" and "U+FFFD" are the two          *)
(* non-ASCII chars the byte alphabet can produce.                          *)
(***************************************************************************)
EXTENDS Integers, Sequences, FiniteSets, TLC

\* ------------------------------------------------------------------ bounds
MaxConns == 2
MaxAcceptErrors == 1
MaxPartialWrite == 1
OversizeBody == 1030
MaxHeaders == 2
MaxBodyCalls == 2

\* ------------------------------------------------------- program constants
BUFFER_SIZE == 1024
READ_TIMEOUT_SECS == 5
WRITE_TIMEOUT_SECS == 5

\* A string literal of the source as a sequence of one-character strings.
Lit(str) == [i \in 1..Len(str) |-> SubSeq(str, i, i)]

HTTP_OK == Lit("HTTP/1.1 200 OK\r\n")
HTTP_NOT_FOUND == Lit("HTTP/1.1 404 Not Found\r\n")
HTTP_METHOD_NOT_ALLOWED == Lit("HTTP/1.1 405 Method Not Allowed\r\n")
HTTP_UNAUTHORIZED == Lit("HTTP/1.1 401 Unauthorized\r\n")

Min(a, b) == IF a < b THEN a ELSE b

\* Indices 1..n of a sequence, in order.
Indices(n) == [i \in 1..n |-> i]

\* Concatenation of a sequence of sequences, by halving (depth log n).
RECURSIVE Flatten(_)
Flatten(ss) ==
    IF Len(ss) = 0 THEN << >>
    ELSE IF Len(ss) = 1 THEN ss[1]
    ELSE LET h == Len(ss) \div 2
         IN  Flatten(SubSeq(ss, 1, h)) \o Flatten(SubSeq(ss, h + 1, Len(ss)))

\* ------------------------------------------------------------ UTF-8 (lossy)
\* The bytes >= 0x80 a client sends here: C3 A9 is the valid encoding of
\* U+00E9; C3 not followed by A9, A9 not preceded by C3, and FF are invalid.
HighBytes == {"xC3", "xA9", "xFF"}

\* Byte i of b is the second byte of the valid two-byte sequence C3 A9.
IsTail2(b, i) == i > 1 /\ b[i] = "xA9" /\ b[i - 1] = "xC3"

\* String::from_utf8_lossy: valid sequences decode to their char, every
\* other byte >= 0x80 becomes the replacement character U+FFFD.
DecodeAt(b, i) ==
    IF b[i] \notin HighBytes THEN b[i]
    ELSE IF b[i] = "xC3" /\ i < Len(b) /\ b[i + 1] = "xA9" THEN "U+00E9"
    ELSE "U+FFFD"

from_utf8_lossy(b) ==
    LET starts == SelectSeq(Indices(Len(b)), LAMBDA i : ~IsTail2(b, i))
    IN  [k \in 1..Len(starts) |-> DecodeAt(b, starts[k])]

\* str::as_bytes: the UTF-8 encoding of the text.
EncodeChar(ch) ==
    IF ch = "U+00E9" THEN <<"xC3", "xA9">>
    ELSE IF ch = "U+FFFD" THEN <<"xEF", "xBF", "xBD">>
    ELSE <<ch>>

as_bytes(s) == Flatten([k \in 1..Len(s) |-> EncodeChar(s[k])])

\* ------------------------------------------------------------ str helpers
\* str::split_terminator("\r\n"): as split, without a trailing empty piece.
split_crlf_terminator(s) ==
    LET at == SelectSeq(Indices(Len(s)),
                        LAMBDA i : i < Len(s) /\ s[i] = "\r" /\ s[i + 1] = "\n")
        n == Len(at)
        from(j) == IF j = 1 THEN 1 ELSE at[j - 1] + 2
        to(j) == IF j = n + 1 THEN Len(s) ELSE at[j] - 1
        m == IF to(n + 1) < from(n + 1) THEN n ELSE n + 1
    IN  [j \in 1..m |-> SubSeq(s, from(j), to(j))]

\* str::split("\r\n"): the pieces between the CRLF occurrences (never empty
\* as a sequence: a text without CRLF is one piece).
split_crlf(s) ==
    LET at == SelectSeq(Indices(Len(s)),
                        LAMBDA i : i < Len(s) /\ s[i] = "\r" /\ s[i + 1] = "\n")
        n == Len(at)
        from(j) == IF j = 1 THEN 1 ELSE at[j - 1] + 2
        to(j) == IF j = n + 1 THEN Len(s) ELSE at[j] - 1
    IN  [j \in 1..(n + 1) |-> SubSeq(s, from(j), to(j))]

WhiteSpace == {" ", "\t", "\n", "\r", "\f"}

\* str::split(' '): the pieces between single spaces, empty ones included.
split_space(s) ==
    LET at == SelectSeq(Indices(Len(s)), LAMBDA i : s[i] = " ")
        n == Len(at)
        from(j) == IF j = 1 THEN 1 ELSE at[j - 1] + 1
        to(j) == IF j = n + 1 THEN Len(s) ELSE at[j] - 1
    IN  [j \in 1..(n + 1) |-> SubSeq(s, from(j), to(j))]

\* str::split_whitespace: the maximal runs of non-whitespace chars.
split_whitespace(s) ==
    LET isWs(i) == s[i] \in WhiteSpace
        starts == SelectSeq(Indices(Len(s)),
                            LAMBDA i : ~isWs(i) /\ (i = 1 \/ isWs(i - 1)))
        ends == SelectSeq(Indices(Len(s)),
                          LAMBDA i : ~isWs(i) /\ (i = Len(s) \/ isWs(i + 1)))
    IN  [k \in 1..Len(starts) |-> SubSeq(s, starts[k], ends[k])]

\* str::rsplit_once(": "): <<key, value>> at the last ": ", or << >>.
rsplit_once(s) ==
    LET at == {i \in 1..(Len(s) - 1) : s[i] = ":" /\ s[i + 1] = " "}
    IN  IF at = {} THEN << >>
        ELSE LET p == CHOOSE i \in at : \A j \in at : i >= j
             IN  <<SubSeq(s, 1, p - 1), SubSeq(s, p + 2, Len(s))>>

\* str::split_once(": "): <<key, value>> at the first ": ", or << >> (None).
split_once(s) ==
    LET at == {i \in 1..(Len(s) - 1) : s[i] = ":" /\ s[i + 1] = " "}
    IN  IF at = {} THEN << >>
        ELSE LET p == CHOOSE i \in at : \A j \in at : i <= j
             IN  <<SubSeq(s, 1, p - 1), SubSeq(s, p + 2, Len(s))>>

\* ------------------------------------------------------ HttpRequest::parse
None == [some |-> FALSE]

\* lines[i] with the source's 0-based index.
At(lines, i) == lines[i + 1]

\* The header loop without its is_empty test: it runs to the end of input.
HeaderEndNoBlank(lines) == Len(lines)

\* The value of i when the header loop ends: the first index >= 1 that is
\* past the end or holds an empty line.
HeaderEnd(lines) ==
    LET stops == {i \in 1..Len(lines) : i >= Len(lines) \/ At(lines, i) = << >>}
    IN  CHOOSE i \in stops : \A j \in stops : i <= j

ParseHeaders(lines) ==
    LET i == HeaderEnd(lines)
        block == SelectSeq(SubSeq(lines, 2, i), LAMBDA l : split_once(l) # << >>)
    IN  [k \in 1..Len(block) |-> split_once(block[k])]

\* The body taken at the loop's final index: the terminator line itself.
ParseBodyAtTerminator(lines) ==
    LET i == HeaderEnd(lines)
    IN  IF i < Len(lines) - 1 THEN as_bytes(At(lines, i)) ELSE << >>

ParseBody(lines) ==
    LET i == HeaderEnd(lines)
    IN  IF i < Len(lines) - 1 THEN as_bytes(At(lines, i + 1)) ELSE << >>

\* The 0-based indices at which parse reads lines: lines[0], lines[i] in
\* the loop condition for every i < lines.len() up to the final i, and
\* lines[i + 1] under the body's guard.
LineReads(lines) ==
    LET i == HeaderEnd(lines)
    IN  {0} \cup {j \in 1..i : j < Len(lines)}
            \cup (IF i < Len(lines) - 1 THEN {i + 1} ELSE {})

parse(raw_request) ==
    LET request_str == from_utf8_lossy(raw_request)
        lines == split_crlf(request_str)
        request_line == split_whitespace(lines[1])
    IN  IF Len(lines) = 0 THEN None
        ELSE IF Len(request_line) < 2 THEN None
        ELSE [some |-> TRUE,
              method |-> request_line[1],
              path |-> request_line[2],
              headers |-> ParseHeaders(lines),
              body |-> ParseBody(lines)]

\* ------------------------------------------------------------ HttpResponse
new(status_line) == [status_line |-> status_line, headers |-> << >>, body |-> << >>]

with_header(self, key, value) ==
    [self EXCEPT !.headers = Append(@, <<Lit(key), Lit(value)>>)]

\* with_body extending the body already attached.
with_body_append(self, body) == [self EXCEPT !.body = @ \o body]

with_body(self, body) == [self EXCEPT !.body = body]

\* format!("{}", n) for an unsigned n: its decimal digits.
Digit(d) == SubSeq("0123456789", d + 1, d + 1)

RECURSIVE ToDecimal(_)
ToDecimal(n) == IF n < 10 THEN <<Digit(n)>> ELSE ToDecimal(n \div 10) \o <<Digit(n % 10)>>

\* The length counted with a line terminator after the body.
ContentLengthOfCrlf(self) == Len(self.body) + 2

\* The length build() writes into the Content-Length header.
ContentLengthOf(self) == Len(self.body)

HeaderLine(kv) == kv[1] \o Lit(": ") \o kv[2] \o Lit("\r\n")

build(self) ==
    self.status_line
        \o Flatten([k \in 1..Len(self.headers) |-> HeaderLine(self.headers[k])])
        \o Lit("Content-Length: ") \o ToDecimal(ContentLengthOf(self)) \o Lit("\r\n")
        \o Lit("\r\n")
        \o self.body

\* ------------------------------------------------------------ handle_client
is_authenticated(request) ==
    \E k \in 1..Len(request.headers) :
        /\ request.headers[k][1] = Lit("Authorization")
        /\ request.headers[k][2] = Lit("Bearer secret-token")

WelcomeBody == Lit("<h1>Welcome to Rust HTTP Server!</h1>")
HealthBody == Lit("{\"status\": \"healthy\"}")
UnauthorizedBody == Lit("Unauthorized")
NotFoundBody == Lit("404 - Not Found")
NotAllowedBody == Lit("405 - Method Not Allowed")

\* The body the authenticated POST /echo arm attaches.
EchoBody(request) == request.body

\* The fallback without its ("GET", _) arm.
unmatched_no_get_arm(request) ==
    with_body(with_header(new(HTTP_METHOD_NOT_ALLOWED), "Content-Type", "text/plain"),
              NotAllowedBody)

\* The last two arms of the match: ("GET", _) and (_, _).
unmatched(request) ==
    IF request.method = Lit("GET") THEN
        with_body(with_header(new(HTTP_NOT_FOUND), "Content-Type", "text/plain"), NotFoundBody)
    ELSE
        with_body(with_header(new(HTTP_METHOD_NOT_ALLOWED), "Content-Type", "text/plain"),
                  NotAllowedBody)

\* The match with the ("GET", _) arm placed above ("GET", "/health").
route_get_arm_first(request) ==
    IF request.method = Lit("GET") /\ request.path = Lit("/") THEN
        with_body(with_header(new(HTTP_OK), "Content-Type", "text/html"), WelcomeBody)
    ELSE IF request.method = Lit("POST") /\ request.path = Lit("/echo") THEN
        IF ~is_authenticated(request) THEN
            with_body(with_header(new(HTTP_UNAUTHORIZED), "Content-Type", "text/plain"),
                      UnauthorizedBody)
        ELSE
            with_body(with_header(new(HTTP_OK), "Content-Type", "application/json"),
                      EchoBody(request))
    ELSE IF request.method = Lit("GET") THEN
        with_body(with_header(new(HTTP_NOT_FOUND), "Content-Type", "text/plain"), NotFoundBody)
    ELSE IF request.method = Lit("GET") /\ request.path = Lit("/health") THEN
        with_body(with_header(new(HTTP_OK), "Content-Type", "application/json"), HealthBody)
    ELSE
        with_body(with_header(new(HTTP_METHOD_NOT_ALLOWED), "Content-Type", "text/plain"),
                  NotAllowedBody)

\* The match with the authentication check in front of every arm.
route_auth_first(request) ==
    IF ~is_authenticated(request) THEN
        with_body(with_header(new(HTTP_UNAUTHORIZED), "Content-Type", "text/plain"),
                  UnauthorizedBody)
    ELSE IF request.method = Lit("GET") /\ request.path = Lit("/") THEN
        with_body(with_header(new(HTTP_OK), "Content-Type", "text/html"), WelcomeBody)
    ELSE IF request.method = Lit("POST") /\ request.path = Lit("/echo") THEN
        with_body(with_header(new(HTTP_OK), "Content-Type", "application/json"),
                  EchoBody(request))
    ELSE IF request.method = Lit("GET") /\ request.path = Lit("/health") THEN
        with_body(with_header(new(HTTP_OK), "Content-Type", "application/json"), HealthBody)
    ELSE unmatched(request)

\* The match on (method, path), arms in source order.
route(request) ==
    IF request.method = Lit("GET") /\ request.path = Lit("/") THEN
        with_body(with_header(new(HTTP_OK), "Content-Type", "text/html"), WelcomeBody)
    ELSE IF request.method = Lit("POST") /\ request.path = Lit("/echo") THEN
        IF ~is_authenticated(request) THEN
            with_body(with_header(new(HTTP_UNAUTHORIZED), "Content-Type", "text/plain"),
                      UnauthorizedBody)
        ELSE
            with_body(with_header(new(HTTP_OK), "Content-Type", "application/json"),
                      EchoBody(request))
    ELSE IF request.method = Lit("GET") /\ request.path = Lit("/health") THEN
        with_body(with_header(new(HTTP_OK), "Content-Type", "application/json"), HealthBody)
    ELSE unmatched(request)

\* ------------------------------------------------------------------ inputs
CRLF == Lit("\r\n")

GoodAuth == Lit("Authorization: Bearer secret-token")
WrongAuth == Lit("Authorization: Bearer wrong-token")

RequestLines ==
    { Lit("GET / HTTP/1.1"), Lit("GET /health HTTP/1.1"), Lit("GET /foo HTTP/1.1"),
      Lit("GET /echo"), Lit("POST /echo HTTP/1.1"), Lit("POST /other HTTP/1.1"),
      Lit("POST / HTTP/1.1"), Lit("DELETE / HTTP/1.1"), Lit("get / HTTP/1.1"),
      Lit(" POST\t/echo  HTTP/1.1"), Lit("GET"), Lit("") }

HeaderBlocks ==
    { << >>,
      <<GoodAuth>>,
      <<WrongAuth>>,
      <<Lit("Host: localhost"), GoodAuth>>,
      <<WrongAuth, GoodAuth>>,
      <<Lit("Authorization:Bearer secret-token")>>,
      <<Lit("authorization: Bearer secret-token")>>,
      <<Lit("X: Authorization: Bearer secret-token")>>,
      <<Lit("no separator here"), Lit("Authorization: Bearer secret-token ")>> }

\* What follows the last header line: nothing, the terminator, and bodies.
Tails ==
    { << >>,
      CRLF,
      CRLF \o CRLF,
      CRLF \o CRLF \o Lit("hi"),
      CRLF \o CRLF \o Lit("{\"a\": 1}"),
      CRLF \o CRLF \o Lit("a\r\nb"),
      CRLF \o CRLF \o GoodAuth,
      CRLF \o CRLF \o CRLF \o GoodAuth \o CRLF \o CRLF \o Lit("x"),
      CRLF \o CRLF \o <<"c", "xC3", "xA9">>,
      CRLF \o CRLF \o <<"c", "xFF">> }

Assemble(line, block, tail) ==
    line \o Flatten([k \in 1..Len(block) |-> CRLF \o block[k]]) \o tail

\* An authenticated echo whose body does not fit the read buffer.
OversizeRequest ==
    Assemble(Lit("POST /echo HTTP/1.1"), <<GoodAuth>>,
             CRLF \o CRLF \o [i \in 1..OversizeBody |-> "a"])

\* The byte sequences a client may have delivered when the handler reads.
Requests ==
    {Assemble(l, b, t) : l \in RequestLines, b \in HeaderBlocks, t \in Tails}
        \cup {OversizeRequest}

\* The requests of the concurrent clients.
ServerRequests ==
    { Assemble(Lit("GET / HTTP/1.1"), << >>, CRLF \o CRLF),
      Assemble(Lit("POST /echo HTTP/1.1"), <<GoodAuth>>, CRLF \o CRLF \o Lit("hi")),
      Lit("junk") }

\* ------------------------------------------------------------------- state
VARIABLES main_pc, cur, accepted, stderr, handler, outcome,
          read_timeout, write_timeout, sent, buffer, response_bytes, written

\* An HttpResponse builder driven by an arbitrary caller: where it is
\* ("none", "building", "built"), its value, the calls made on it so far,
\* and the bytes build returned.
VARIABLES builder_pc, builder, calls, built

builderVars == <<builder_pc, builder, calls, built>>

vars == <<main_pc, cur, accepted, stderr, handler, outcome,
          read_timeout, write_timeout, sent, buffer, response_bytes, written,
          builder_pc, builder, calls, built>>

Conns == 1..MaxConns

Exited == {"exited_bind_err", "exited_io_err"}

\* The process is alive: main has not returned.
Running == main_pc \notin Exited

Init ==
    /\ main_pc = "bind"
    /\ cur = 0
    /\ accepted = 0
    /\ stderr = [k \in {"accept", "read", "write"} |-> 0]
    /\ handler = [c \in Conns |-> "none"]
    /\ outcome = [c \in Conns |-> "pending"]
    /\ read_timeout = [c \in Conns |-> 0]
    /\ write_timeout = [c \in Conns |-> 0]
    /\ sent = [c \in Conns |-> << >>]
    /\ buffer = [c \in Conns |-> << >>]
    /\ response_bytes = [c \in Conns |-> << >>]
    /\ written = [c \in Conns |-> << >>]
    /\ builder_pc = "none"
    /\ builder = None
    /\ calls = << >>
    /\ built = << >>

connVars == <<handler, outcome, read_timeout, write_timeout,
              sent, buffer, response_bytes, written>>
ioVars == <<sent, buffer, response_bytes, written>>
mainVars == <<main_pc, cur, accepted>>

\* -------------------------------------------------------------------- main
\* TcpListener::bind(...)? succeeds.
BindOk ==
    /\ main_pc = "bind"
    /\ main_pc' = "accept"
    /\ UNCHANGED builderVars
    /\ UNCHANGED <<cur, accepted, stderr, connVars>>

\* TcpListener::bind(...)? fails: main returns the error.
BindErr ==
    /\ main_pc = "bind"
    /\ main_pc' = "exited_bind_err"
    /\ UNCHANGED builderVars
    /\ UNCHANGED <<cur, accepted, stderr, connVars>>

\* The handler spawned in the Ok arm's first line, before the timeouts.
OnAcceptSpawnFirst == "read"

\* Where the handler of a connection just accepted is: not started, main
\* still owns the stream.
OnAccept == "accepted"

\* listener.incoming() yields Ok(stream); at most limit connections arrive.
AcceptOk(limit) ==
    /\ main_pc = "accept"
    /\ accepted < limit
    /\ accepted' = accepted + 1
    /\ cur' = accepted + 1
    /\ handler' = [handler EXCEPT ![accepted + 1] = OnAccept]
    /\ main_pc' = "set_read_timeout"
    /\ UNCHANGED builderVars
    /\ UNCHANGED <<stderr, outcome, read_timeout, write_timeout, ioVars>>

\* The Err(e) arm returning the error from main.
AfterAcceptErrReturn == "exited_io_err"

\* Where main goes after the Err(e) arm: the next iteration of the loop.
AfterAcceptErr == "accept"

\* listener.incoming() yields Err(e): logged, the loop goes on.
AcceptErr ==
    /\ main_pc = "accept"
    /\ stderr["accept"] < MaxAcceptErrors
    /\ stderr' = [stderr EXCEPT !["accept"] = @ + 1]
    /\ main_pc' = AfterAcceptErr
    /\ UNCHANGED builderVars
    /\ UNCHANGED <<cur, accepted, connVars>>

SetReadTimeoutOk ==
    /\ main_pc = "set_read_timeout"
    /\ read_timeout' = [read_timeout EXCEPT ![cur] = READ_TIMEOUT_SECS]
    /\ main_pc' = "set_write_timeout"
    /\ UNCHANGED builderVars
    /\ UNCHANGED <<cur, accepted, stderr, handler, outcome, write_timeout, ioVars>>

\* set_read_timeout(..)? fails: the ? returns the error from main.
SetReadTimeoutErr ==
    /\ main_pc = "set_read_timeout"
    /\ main_pc' = "exited_io_err"
    /\ UNCHANGED builderVars
    /\ UNCHANGED <<cur, accepted, stderr, connVars>>

SetWriteTimeoutOk ==
    /\ main_pc = "set_write_timeout"
    /\ write_timeout' = [write_timeout EXCEPT ![cur] = WRITE_TIMEOUT_SECS]
    /\ main_pc' = "spawn"
    /\ UNCHANGED builderVars
    /\ UNCHANGED <<cur, accepted, stderr, handler, outcome, read_timeout, ioVars>>

\* set_write_timeout(..)? fails: the ? returns the error from main.
SetWriteTimeoutErr ==
    /\ main_pc = "set_write_timeout"
    /\ main_pc' = "exited_io_err"
    /\ UNCHANGED builderVars
    /\ UNCHANGED <<cur, accepted, stderr, connVars>>

\* thread::spawn(|| handle_client(stream)): the handler starts at its read.
Spawn ==
    /\ main_pc = "spawn"
    /\ handler' = [handler EXCEPT ![cur] = "read"]
    /\ main_pc' = "accept"
    /\ cur' = 0
    /\ UNCHANGED builderVars
    /\ UNCHANGED <<accepted, stderr, outcome, read_timeout, write_timeout, ioVars>>

\* ----------------------------------------------------------- handle_client
\* One buffer shared by all handlers.
BufferSlotShared(c) == 1

\* The slot a handler's read fills and its parse reads: its own stack buffer.
BufferSlot(c) == c

\* stream.read(&mut buffer) returns Ok(size): raw is what the client has
\* delivered, of which at most BUFFER_SIZE bytes are taken.
ReadOk(c, raw) ==
    /\ Running
    /\ handler[c] = "read"
    /\ sent' = [sent EXCEPT ![c] = raw]
    /\ buffer' = [buffer EXCEPT ![BufferSlot(c)] = SubSeq(raw, 1, Min(Len(raw), BUFFER_SIZE))]
    /\ handler' = [handler EXCEPT ![c] = "parse"]
    /\ UNCHANGED builderVars
    /\ UNCHANGED <<mainVars, stderr, outcome, read_timeout, write_timeout,
                   response_bytes, written>>

\* A handler that answers a read error with 408.
OnReadErr408(c) ==
    build(with_body(with_header(new(Lit("HTTP/1.1 408 Request Timeout\r\n")),
                                "Content-Type", "text/plain"),
                    Lit("Request Timeout")))

\* What the handler writes on a read error: nothing, it logs and returns.
OnReadErr(c) == << >>

\* stream.read returns Err(e): the read timeout elapsed with no data
\* (kind "timed_out") or the connection failed (kind "reset").
ReadErr(c, kind) ==
    /\ Running
    /\ handler[c] = "read"
    /\ kind = "timed_out" => read_timeout[c] > 0
    /\ stderr' = [stderr EXCEPT !["read"] = @ + 1]
    /\ handler' = [handler EXCEPT ![c] = "done"]
    /\ outcome' = [outcome EXCEPT ![c] = "read_" \o kind]
    /\ written' = [written EXCEPT ![c] = OnReadErr(c)]
    /\ UNCHANGED builderVars
    /\ UNCHANGED <<mainVars, read_timeout, write_timeout, sent, buffer, response_bytes>>

\* A handler that answers an unparseable request with 400.
OnParseFailure400(c) ==
    build(with_body(with_header(new(Lit("HTTP/1.1 400 Bad Request\r\n")),
                                "Content-Type", "text/plain"),
                    Lit("Bad Request")))

\* What the handler writes when parse returns None: nothing.
OnParseFailure(c) == << >>

\* HttpRequest::parse returns None: the handler returns.
ParseFail(c) ==
    /\ Running
    /\ handler[c] = "parse"
    /\ ~parse(buffer[BufferSlot(c)]).some
    /\ handler' = [handler EXCEPT ![c] = "done"]
    /\ outcome' = [outcome EXCEPT ![c] = "dropped"]
    /\ written' = [written EXCEPT ![c] = OnParseFailure(c)]
    /\ UNCHANGED builderVars
    /\ UNCHANGED <<mainVars, stderr, read_timeout, write_timeout, sent, buffer, response_bytes>>

\* HttpRequest::parse returns Some(request): route it and build the bytes.
Dispatch(c) ==
    /\ Running
    /\ handler[c] = "parse"
    /\ parse(buffer[BufferSlot(c)]).some
    /\ response_bytes' = [response_bytes EXCEPT ![c] = build(route(parse(buffer[BufferSlot(c)])))]
    /\ handler' = [handler EXCEPT ![c] = "write"]
    /\ UNCHANGED builderVars
    /\ UNCHANGED <<mainVars, stderr, outcome, read_timeout, write_timeout, sent, buffer, written>>

\* A keep-alive handler: after the write it reads the next request.
AfterWriteKeepAlive == "read"

\* Where the handler goes after write_all: it returns (the stream is dropped).
AfterWrite == "done"

\* stream.write_all(&response_bytes) returns Ok(()).
WriteOk(c) ==
    /\ Running
    /\ handler[c] = "write"
    /\ written' = [written EXCEPT ![c] = response_bytes[c]]
    /\ handler' = [handler EXCEPT ![c] = AfterWrite]
    /\ outcome' = [outcome EXCEPT ![c] = "responded"]
    /\ UNCHANGED builderVars
    /\ UNCHANGED <<mainVars, stderr, read_timeout, write_timeout, sent, buffer, response_bytes>>

\* stream.write_all returns Err(e) after n < len bytes went out: logged.
\* The write timeout elapsed with the client not reading (kind "timed_out")
\* or the connection failed (kind "reset").
WriteErr(c, n, kind) ==
    /\ Running
    /\ handler[c] = "write"
    /\ n < Len(response_bytes[c])
    /\ kind = "timed_out" => write_timeout[c] > 0
    /\ written' = [written EXCEPT ![c] = SubSeq(response_bytes[c], 1, n)]
    /\ stderr' = [stderr EXCEPT !["write"] = @ + 1]
    /\ handler' = [handler EXCEPT ![c] = "done"]
    /\ outcome' = [outcome EXCEPT ![c] = "write_error"]
    /\ UNCHANGED builderVars
    /\ UNCHANGED <<mainVars, read_timeout, write_timeout, sent, buffer, response_bytes>>

\* ---------------------------------------------------------- specifications
\* The server with MaxConns concurrent clients.
Next ==
    \/ BindOk
    \/ BindErr
    \/ AcceptOk(MaxConns)
    \/ AcceptErr
    \/ SetReadTimeoutOk
    \/ SetReadTimeoutErr
    \/ SetWriteTimeoutOk
    \/ SetWriteTimeoutErr
    \/ Spawn
    \/ \E c \in Conns, raw \in ServerRequests : ReadOk(c, raw)
    \/ \E c \in Conns, kind \in {"timed_out", "reset"} : ReadErr(c, kind)
    \/ \E c \in Conns : ParseFail(c)
    \/ \E c \in Conns : Dispatch(c)
    \/ \E c \in Conns : WriteOk(c)
    \/ \E c \in Conns, n \in 0..MaxPartialWrite, kind \in {"timed_out", "reset"} :
           WriteErr(c, n, kind)

Spec == Init /\ [][Next]_vars

\* The blocking calls of a handler that its timeouts end: a read that stays
\* blocked returns Err at the read timeout, a write that stays blocked
\* returns Err at the write timeout.  Clients owe nothing.
TimeoutFires(c) ==
    \/ ReadErr(c, "timed_out")
    \/ \E n \in 0..MaxPartialWrite : WriteErr(c, n, "timed_out")

\* The handler is between its read and its write: parse, route and build
\* are running (no blocking call).
Computing(c) == Running /\ handler[c] = "parse"

\* The progress the code guarantees to a spawned handler: its timeouts fire,
\* and its computation ends.  The second conjunct is weak fairness of
\* ParseFail(c) \/ Dispatch(c), whose enabling condition is Computing(c) and
\* which a handler takes once.
SpecLive ==
    Spec /\ \A c \in Conns : WF_vars(TimeoutFires(c)) /\ []<>~Computing(c)

\* ---------------------------------------------------- the builder, driven
StatusLines == {HTTP_OK, HTTP_NOT_FOUND}
HeaderPairs == {<<"Content-Type", "text/plain">>, <<"X-A", "b">>, <<"Content-Length", "99">>}
Bodies == {<< >>, Lit("hi"), Lit("a\r\nb")}

serverVars == <<main_pc, cur, accepted, stderr, handler, outcome,
                read_timeout, write_timeout, sent, buffer, response_bytes, written>>

CallsOf(kind) == SelectSeq(calls, LAMBDA call : call[1] = kind)

\* HttpResponse::new(status_line).
BuilderNew(status_line) ==
    /\ builder_pc = "none"
    /\ builder' = new(status_line)
    /\ calls' = << <<"new", status_line>> >>
    /\ builder_pc' = "building"
    /\ UNCHANGED <<built, serverVars>>

\* self.with_header(key, value).
BuilderWithHeader(key, value) ==
    /\ builder_pc = "building"
    /\ Len(CallsOf("with_header")) < MaxHeaders
    /\ builder' = with_header(builder, key, value)
    /\ calls' = Append(calls, <<"with_header", key, value>>)
    /\ UNCHANGED <<builder_pc, built, serverVars>>

\* self.with_body(body).
BuilderWithBody(body) ==
    /\ builder_pc = "building"
    /\ Len(CallsOf("with_body")) < MaxBodyCalls
    /\ builder' = with_body(builder, body)
    /\ calls' = Append(calls, <<"with_body", body>>)
    /\ UNCHANGED <<builder_pc, built, serverVars>>

\* self.build(): terminal, the builder is consumed.
BuilderBuild ==
    /\ builder_pc = "building"
    /\ built' = build(builder)
    /\ builder' = None
    /\ builder_pc' = "built"
    /\ UNCHANGED <<calls, serverVars>>

NextBuild ==
    \/ \E status_line \in StatusLines : BuilderNew(status_line)
    \/ \E kv \in HeaderPairs : BuilderWithHeader(kv[1], kv[2])
    \/ \E body \in Bodies : BuilderWithBody(body)
    \/ BuilderBuild

SpecBuild == Init /\ [][NextBuild]_vars

\* One connection, every request of Requests.
NextOne ==
    \/ BindOk
    \/ BindErr
    \/ AcceptOk(1)
    \/ AcceptErr
    \/ SetReadTimeoutOk
    \/ SetReadTimeoutErr
    \/ SetWriteTimeoutOk
    \/ SetWriteTimeoutErr
    \/ Spawn
    \/ \E raw \in Requests : ReadOk(1, raw)
    \/ \E kind \in {"timed_out", "reset"} : ReadErr(1, kind)
    \/ ParseFail(1)
    \/ Dispatch(1)
    \/ WriteOk(1)
    \/ \E n \in 0..MaxPartialWrite, kind \in {"timed_out", "reset"} : WriteErr(1, n, kind)

SpecOne == Init /\ [][NextOne]_vars

\* ------------------------------------------------- what the client observes
\* First index of CRLF CRLF in a byte sequence, 0 when there is none.
BlankLineAt(b) ==
    LET at == {i \in 1..(Len(b) - 3) :
                   b[i] = "\r" /\ b[i + 1] = "\n" /\ b[i + 2] = "\r" /\ b[i + 3] = "\n"}
    IN  IF at = {} THEN 0 ELSE CHOOSE i \in at : \A j \in at : i <= j

\* The bytes after the first blank line: the body of an HTTP message.
MessageBody(b) == IF BlankLineAt(b) = 0 THEN << >> ELSE SubSeq(b, BlankLineAt(b) + 4, Len(b))

\* The lines before the first blank line: status line and header lines.
MessageHead(b) == split_crlf(SubSeq(b, 1, BlankLineAt(b) - 1))

StatusLineOf(b) == MessageHead(b)[1]

HasPrefix(l, pre) == Len(l) >= Len(pre) /\ SubSeq(l, 1, Len(pre)) = pre

\* The values of the header lines "name: value" of a message.
HeaderValues(b, name) ==
    LET head == MessageHead(b)
        pre == Lit(name) \o Lit(": ")
    IN  {SubSeq(head[k], Len(pre) + 1, Len(head[k])) : k \in {j \in 2..Len(head) : HasPrefix(head[j], pre)}}

\* The names of the header lines of a message.
HeaderLinesOf(b) == LET head == MessageHead(b) IN {head[k] : k \in 2..Len(head)}

DigitValue(ch) == CHOOSE d \in 0..9 : Digit(d) = ch

RECURSIVE FromDecimal(_)
FromDecimal(ds) ==
    IF Len(ds) = 0 THEN 0
    ELSE 10 * FromDecimal(SubSeq(ds, 1, Len(ds) - 1)) + DigitValue(ds[Len(ds)])

\* The request the handler of connection c parsed from what it read.
RequestOf(c) == parse(buffer[c])

Responded(c) == outcome[c] = "responded"

IsRoute(r, method, path) == r.method = Lit(method) /\ r.path = Lit(path)

\* The request carries the pair (Authorization, Bearer secret-token).
CarriesToken(r) ==
    \E k \in 1..Len(r.headers) :
        r.headers[k] = <<Lit("Authorization"), Lit("Bearer secret-token")>>

Answer(c, status, ctype) ==
    /\ StatusLineOf(written[c]) = Lit(status)
    /\ HeaderValues(written[c], "Content-Type") = {Lit(ctype)}

\* ------------------------------------------------------------------ claims
\* C1: a parsed request to a recognized (method, path) gets the status and
\* Content-Type of the route table: GET / is 200 text/html with the welcome
\* body, GET /health is 200 application/json with {"status": "healthy"},
\* POST /echo with the bearer token is 200 application/json.
C1_RouteTable ==
    \A c \in Conns : Responded(c) =>
        LET r == RequestOf(c)
        IN  /\ IsRoute(r, "GET", "/") =>
                /\ Answer(c, "HTTP/1.1 200 OK", "text/html")
                /\ MessageBody(written[c]) = Lit("<h1>Welcome to Rust HTTP Server!</h1>")
            /\ IsRoute(r, "GET", "/health") =>
                /\ Answer(c, "HTTP/1.1 200 OK", "application/json")
                /\ MessageBody(written[c]) = Lit("{\"status\": \"healthy\"}")
            /\ (IsRoute(r, "POST", "/echo") /\ CarriesToken(r)) =>
                Answer(c, "HTTP/1.1 200 OK", "application/json")

C1_Witness ==
    /\ Responded(1)
    /\ IsRoute(RequestOf(1), "GET", "/health")
    /\ StatusLineOf(written[1]) = Lit("HTTP/1.1 200 OK")

\* C2: an authenticated POST /echo answers 200 with a body equal to the body
\* the client sent (the bytes after the blank line of its request).
C2_EchoesClientBody ==
    \A c \in Conns : Responded(c) =>
        LET r == RequestOf(c)
        IN  (IsRoute(r, "POST", "/echo") /\ CarriesToken(r)) =>
                /\ StatusLineOf(written[c]) = Lit("HTTP/1.1 200 OK")
                /\ MessageBody(written[c]) = MessageBody(sent[c])

\* The header block of the request as delivered: the lines after the request
\* line up to the first empty line.
HeaderBlockOf(b) ==
    LET lines == split_crlf(from_utf8_lossy(b))
        empties == {k \in 2..Len(lines) : lines[k] = << >>}
        last == IF empties = {} THEN Len(lines)
                ELSE (CHOOSE k \in empties : \A j \in empties : k <= j) - 1
    IN  {lines[k] : k \in 2..last}

\* C3: POST /echo whose header block has no line "Authorization: Bearer
\* secret-token" answers 401 text/plain with the body "Unauthorized",
\* whatever the request body holds.
C3_Unauthorized ==
    \A c \in Conns : Responded(c) =>
        LET r == RequestOf(c)
        IN  (IsRoute(r, "POST", "/echo") /\ GoodAuth \notin HeaderBlockOf(buffer[c])) =>
                /\ Answer(c, "HTTP/1.1 401 Unauthorized", "text/plain")
                /\ MessageBody(written[c]) = Lit("Unauthorized")

\* An unauthenticated echo whose body is the text of a valid header.
C3_Witness ==
    /\ Responded(1)
    /\ IsRoute(RequestOf(1), "POST", "/echo")
    /\ WrongAuth \in HeaderBlockOf(buffer[1])
    /\ MessageBody(sent[1]) = GoodAuth
    /\ StatusLineOf(written[1]) = Lit("HTTP/1.1 401 Unauthorized")

\* C4: every response written in full has exactly one Content-Length header
\* and its value is the byte length of the response body.
C4_ContentLength ==
    \A c \in Conns : Responded(c) =>
        /\ Cardinality(HeaderValues(written[c], "Content-Length")) = 1
        /\ \A v \in HeaderValues(written[c], "Content-Length") :
               FromDecimal(v) = Len(MessageBody(written[c]))

\* An echoed body with a multi-byte character.
C4_Witness ==
    /\ Responded(1)
    /\ MessageBody(written[1]) = <<"c", "xC3", "xA9">>
    /\ HeaderValues(written[1], "Content-Length") = {Lit("3")}

\* C5: a GET to a path other than / and /health answers 404 text/plain; a
\* request that is neither a GET nor POST /echo answers 405 text/plain; no
\* other request gets 404 or 405 (GET / and GET /health are matched first).
C5_Fallbacks ==
    \A c \in Conns : Responded(c) =>
        LET r == RequestOf(c)
            otherGet == r.method = Lit("GET") /\ r.path \notin {Lit("/"), Lit("/health")}
            otherAny == r.method # Lit("GET") /\ ~IsRoute(r, "POST", "/echo")
        IN  /\ otherGet => Answer(c, "HTTP/1.1 404 Not Found", "text/plain")
            /\ otherAny => Answer(c, "HTTP/1.1 405 Method Not Allowed", "text/plain")
            /\ StatusLineOf(written[c]) = Lit("HTTP/1.1 404 Not Found") => otherGet
            /\ StatusLineOf(written[c]) = Lit("HTTP/1.1 405 Method Not Allowed") => otherAny

C5_Witness ==
    /\ Responded(1)
    /\ RequestOf(1).method = Lit("get")
    /\ StatusLineOf(written[1]) = Lit("HTTP/1.1 405 Method Not Allowed")

\* C7: when the bytes a handler read do not parse, it builds no response and
\* writes nothing to the connection.
C7_SilentDrop ==
    \A c \in Conns : (handler[c] \in {"parse", "write", "done"} /\ ~RequestOf(c).some) =>
        /\ written[c] = << >>
        /\ response_bytes[c] = << >>
        /\ handler[c] = "done" => outcome[c] \in {"dropped", "read_timed_out", "read_reset"}

C7_Witness ==
    /\ outcome[1] = "dropped"
    /\ handler[1] = "done"
    /\ Len(buffer[1]) > 0
    /\ written[1] = << >>

\* C6: main returns only when the initial bind fails; after a successful
\* bind nothing that happens on an accepted connection makes it return.
C6_OnlyBindIsFatal ==
    main_pc \in Exited => (main_pc = "exited_bind_err" /\ accepted = 0)

\* C8: a handler whose read times out writes nothing to its connection, and
\* the step in which the timeout is handled leaves main where it was,
\* running, with its count of accepted connections.
C8_ReadTimeoutDrops ==
    [][\A c \in Conns :
           /\ outcome'[c] = "read_timed_out" =>
                  (written'[c] = << >> /\ sent'[c] = << >> /\ handler'[c] = "done")
           /\ (outcome[c] = "pending" /\ outcome'[c] = "read_timed_out") =>
                  (Running' /\ main_pc' = main_pc /\ accepted' = accepted /\ cur' = cur)]_vars

\* A connection timed out and main is accepting with a later connection
\* already answered.
C8_Witness ==
    /\ outcome[1] = "read_timed_out"
    /\ stderr["read"] = 1
    /\ main_pc = "accept"
    /\ Responded(2)

\* The response the bytes delivered on connection c determine.
OwnResponse(c) ==
    LET r == parse(SubSeq(sent[c], 1, Min(Len(sent[c]), BUFFER_SIZE)))
    IN  IF r.some THEN build(route(r)) ELSE << >>

\* C9: under every interleaving of the handlers, what a connection receives
\* is the response its own request determines (in full when the write
\* succeeds, a prefix of it when the write fails), never another's.
C9_NoCrossTalk ==
    \A c \in Conns :
        /\ Responded(c) => (written[c] = OwnResponse(c) /\ written[c] # << >>)
        /\ ~Responded(c) => (written[c] = << >> \/ HasPrefix(OwnResponse(c), written[c]))

\* Two connections with different requests, both answered.
C9_Witness ==
    /\ Responded(1)
    /\ Responded(2)
    /\ sent[1] # sent[2]
    /\ MessageBody(written[1]) = Lit("hi")
    /\ MessageBody(written[2]) = WelcomeBody

\* C10: a failed accept is logged and nothing else: no connection is
\* accepted, no handler is spawned or changed, and main is at accept again.
C10_AcceptErrorContinues ==
    [][stderr'["accept"] # stderr["accept"] =>
           /\ stderr'["accept"] = stderr["accept"] + 1
           /\ main_pc' = "accept"
           /\ accepted' = accepted
           /\ handler' = handler
           /\ Running']_vars

\* Every accept failure the bound allows was logged and a connection was
\* still accepted and answered.
C10_Witness ==
    /\ stderr["accept"] = MaxAcceptErrors
    /\ main_pc = "accept"
    /\ Responded(1)

\* The steps a handler can take, as (from, to) pairs of its position.
HandlerSteps ==
    { <<"none", "accepted">>, <<"accepted", "read">>,
      <<"read", "parse">>, <<"read", "done">>,
      <<"parse", "write">>, <<"parse", "done">>,
      <<"write", "done">> }

\* C11: a handler reads once, dispatches only what it read and parsed,
\* writes at most once and only what it dispatched, and does nothing on the
\* connection after the write, a read error, a parse failure or a write error.
C11_SingleShot ==
    [][\A c \in Conns :
           /\ handler'[c] # handler[c] => <<handler[c], handler'[c]>> \in HandlerSteps
           /\ (sent'[c] # sent[c] \/ buffer'[c] # buffer[c]) =>
                  (handler[c] = "read" /\ handler'[c] = "parse")
           /\ response_bytes'[c] # response_bytes[c] =>
                  /\ handler[c] = "parse" /\ handler'[c] = "write"
                  /\ RequestOf(c).some
                  /\ buffer'[c] = buffer[c]
           /\ written'[c] # written[c] =>
                  /\ handler[c] = "write" /\ handler'[c] = "done"
                  /\ HasPrefix(response_bytes[c], written'[c])
           /\ handler[c] = "done" =>
                  /\ handler'[c] = "done"
                  /\ sent'[c] = sent[c] /\ buffer'[c] = buffer[c]
                  /\ response_bytes'[c] = response_bytes[c]
                  /\ written'[c] = written[c] /\ outcome'[c] = outcome[c]]_vars

\* A handler that answered and returned while another one is still reading.
C11_Witness ==
    /\ handler[1] = "done"
    /\ Responded(1)
    /\ written[1] = response_bytes[1]
    /\ handler[2] = "read"

\* C12: every spawned handler terminates (at the latest when the process
\* does): its read ends with data, end of stream or an error, its write
\* with success or an error, whatever the client does.
C12_HandlerTerminates ==
    \A c \in Conns : (handler[c] = "read") ~> (handler[c] = "done" \/ ~Running)

\* A handler that ended on a write error with the process still running.
C12_Witness ==
    /\ handler[1] = "done"
    /\ outcome[1] = "write_error"
    /\ stderr["write"] = 1
    /\ Running

\* C13: a handler runs only on a connection whose read timeout and write
\* timeout main has set.
C13_TimeoutsBeforeSpawn ==
    \A c \in Conns : handler[c] \in {"read", "parse", "write", "done"} =>
        /\ read_timeout[c] = 5
        /\ write_timeout[c] = 5

\* A handler just spawned, about to read.
C13_Witness ==
    /\ handler[1] = "read"
    /\ main_pc = "accept"
    /\ read_timeout[1] = 5
    /\ write_timeout[1] = 5

\* -------------------------------------------------- the request as delivered
\* The text the handler of connection c decoded from what it read.
TextOf(c) == from_utf8_lossy(buffer[c])

\* The handler of connection c got bytes from its read (possibly none).
WasRead(c) ==
    /\ handler[c] \in {"parse", "write", "done"}
    /\ outcome[c] \notin {"read_timed_out", "read_reset"}

\* The text before the first CRLF (all of it when there is none).
FirstLineOf(t) ==
    LET at == {i \in 1..(Len(t) - 1) : t[i] = "\r" /\ t[i + 1] = "\n"}
    IN  IF at = {} THEN t
        ELSE SubSeq(t, 1, (CHOOSE i \in at : \A j \in at : i <= j) - 1)

\* First index >= from of a non-whitespace char of l, 0 when there is none.
TokenStart(l, from) ==
    LET at == {i \in from..Len(l) : l[i] \notin WhiteSpace}
    IN  IF at = {} THEN 0 ELSE CHOOSE i \in at : \A j \in at : i <= j

\* Last index of the token of l that starts at start.
TokenEnd(l, start) ==
    LET ws == {i \in start..Len(l) : l[i] \in WhiteSpace}
    IN  IF ws = {} THEN Len(l) ELSE (CHOOSE i \in ws : \A j \in ws : i <= j) - 1

\* The first two whitespace-separated tokens of l, as far as they exist.
FirstTokens(l) ==
    LET s0 == TokenStart(l, 1)
        e0 == TokenEnd(l, s0)
        s1 == TokenStart(l, e0 + 1)
        e1 == TokenEnd(l, s1)
    IN  IF s0 = 0 THEN << >>
        ELSE IF s1 = 0 THEN <<SubSeq(l, s0, e0)>>
        ELSE <<SubSeq(l, s0, e0), SubSeq(l, s1, e1)>>

\* C14: parse fails exactly when the first CRLF-delimited line of the buffer
\* has fewer than two whitespace-separated tokens; otherwise the method is
\* its first token and the path its second, whatever follows.
C14_ParseOutcome ==
    \A c \in Conns : WasRead(c) =>
        LET toks == FirstTokens(FirstLineOf(TextOf(c)))
            r == RequestOf(c)
        IN  /\ r.some <=> Len(toks) = 2
            /\ r.some => (r.method = toks[1] /\ r.path = toks[2])

\* A request line with leading whitespace, a tab and a version token.
C14_Witness ==
    /\ WasRead(1)
    /\ FirstLineOf(TextOf(1)) = Lit(" POST\t/echo  HTTP/1.1")
    /\ RequestOf(1).method = Lit("POST")
    /\ RequestOf(1).path = Lit("/echo")

HasSep(l) == \E i \in 1..(Len(l) - 1) : l[i] = ":" /\ l[i + 1] = " "

\* The lines after the request line up to the first empty line, in order.
HeaderBlockSeq(t) ==
    LET lines == split_crlf(t)
        empties == {k \in 2..Len(lines) : lines[k] = << >>}
        last == IF empties = {} THEN Len(lines)
                ELSE (CHOOSE k \in empties : \A j \in empties : k <= j) - 1
    IN  SubSeq(lines, 2, last)

\* C15: the parsed headers are, in order and with duplicates, the lines of
\* the header block that contain ": ", each cut at its first ": "; lines
\* without it are skipped and nothing after the first empty line is a header.
C15_Headers ==
    \A c \in Conns : (WasRead(c) /\ RequestOf(c).some) =>
        LET kept == SelectSeq(HeaderBlockSeq(TextOf(c)), HasSep)
            hs == RequestOf(c).headers
        IN  /\ Len(hs) = Len(kept)
            /\ \A k \in 1..Len(hs) :
                   /\ hs[k][1] \o Lit(": ") \o hs[k][2] = kept[k]
                   /\ ~HasSep(hs[k][1])

\* A header line with two separators: cut at the first.
C15_Witness ==
    /\ WasRead(1)
    /\ RequestOf(1).some
    /\ RequestOf(1).headers = << <<Lit("X"), GoodAuth>> >>
    /\ MessageBody(sent[1]) = GoodAuth

\* C16: the parsed body is the single line after the first empty line of the
\* text (the bytes of the text between the first CRLF CRLF and the next CRLF
\* or the end), and empty when the text has no such line.
C16_Body ==
    \A c \in Conns : (WasRead(c) /\ RequestOf(c).some) =>
        RequestOf(c).body = as_bytes(FirstLineOf(MessageBody(TextOf(c))))

\* A body of two lines: the second is ignored.
C16_Witness ==
    /\ WasRead(1)
    /\ RequestOf(1).some
    /\ MessageBody(sent[1]) = Lit("a\r\nb")
    /\ RequestOf(1).body = Lit("a")

\* C19: for every buffer read, the text splits into at least one line, the
\* header loop ends with its index in 1..=lines.len(), and every index at
\* which parse reads lines is below lines.len().
C19_IndicesInBounds ==
    \A c \in Conns : WasRead(c) =>
        LET lines == split_crlf(TextOf(c))
        IN  /\ Len(lines) >= 1
            /\ HeaderEnd(lines) \in 1..Len(lines)
            /\ \A j \in LineReads(lines) : 0 <= j /\ j < Len(lines)

\* A buffer that ends right after the request line's CRLF: the loop stops at
\* the last line, which is empty, and the body guard is false.
C19_Witness ==
    /\ WasRead(1)
    /\ buffer[1] = Lit("GET / HTTP/1.1\r\n")
    /\ HeaderEnd(split_crlf(TextOf(1))) = 1
    /\ LineReads(split_crlf(TextOf(1))) = {0, 1}

\* The request r with its headers and body replaced.
Recast(r, headers, body) == [r EXCEPT !.headers = headers, !.body = body]

\* C18: the response to a request that is not POST /echo is the one the same
\* method and path get without headers and body, and the one they get with
\* the bearer token and another body: headers and body do not matter.
C18_OnlyEchoReadsHeaders ==
    \A c \in Conns : (Responded(c) /\ ~IsRoute(RequestOf(c), "POST", "/echo")) =>
        /\ written[c] = build(route(Recast(RequestOf(c), << >>, << >>)))
        /\ written[c] = build(route(Recast(RequestOf(c),
                                           << <<Lit("Authorization"), Lit("Bearer secret-token")>> >>,
                                           Lit("other"))))

\* GET / sent with the bearer token and a body.
C18_Witness ==
    /\ Responded(1)
    /\ IsRoute(RequestOf(1), "GET", "/")
    /\ CarriesToken(RequestOf(1))
    /\ RequestOf(1).body = Lit("hi")
    /\ MessageBody(written[1]) = WelcomeBody

\* The headers attached to the builder, in the order of the calls.
AttachedHeaders ==
    LET hs == CallsOf("with_header")
    IN  [k \in 1..Len(hs) |-> Lit(hs[k][2]) \o Lit(": ") \o Lit(hs[k][3])]

\* The body of the last with_body call, empty when there was none.
FinalBody ==
    LET bs == CallsOf("with_body")
    IN  IF Len(bs) = 0 THEN << >> ELSE bs[Len(bs)][2]

\* C17: the bytes build returns are the status line, the attached headers as
\* "Key: Value" lines in attachment order, one "Content-Length: n" line with
\* n the length of the final body, a blank line, and the body of the last
\* with_body call; nothing else.
C17_BuildLayout ==
    builder_pc = "built" =>
        /\ MessageHead(built)
               = <<SubSeq(calls[1][2], 1, Len(calls[1][2]) - 2)>>
                     \o AttachedHeaders
                     \o <<Lit("Content-Length: ") \o ToDecimal(Len(FinalBody))>>
        /\ MessageBody(built) = FinalBody
        /\ Len(built) = Len(calls[1][2]) + Len(Flatten(AttachedHeaders))
                            + 2 * Len(AttachedHeaders)
                            + Len(Lit("Content-Length: ")) + Len(ToDecimal(Len(FinalBody)))
                            + 4 + Len(FinalBody)

\* Two headers and two with_body calls: the second body replaces the first.
C17_Witness ==
    /\ builder_pc = "built"
    /\ calls = << <<"new", HTTP_NOT_FOUND>>, <<"with_body", Lit("a\r\nb")>>,
                  <<"with_header", "X-A", "b">>, <<"with_header", "Content-Length", "99">>,
                  <<"with_body", Lit("hi")>> >>
    /\ MessageBody(built) = Lit("hi")

====
